---- MODULE Spec2Model ----
(***************************************************************************)
(* A model of spectral_cube/io/casa_image.py: the lazy array adapter       *)
(* ArraylikeCasaData (construction and element access) and the loader      *)
(* load_casa_image, over an external image service (open, shape,           *)
(* pixeltype, getchunk, coordsys, restoringbeam, close).                   *)
(***************************************************************************)
EXTENDS Integers, Sequences, FiniteSets, TLC

(***************************************************************************)
(* Bounds of the model.                                                    *)
(***************************************************************************)
\* the largest number of axes of an image on disk
MaxDim == 2
\* the largest extent of one axis
MaxExtent == 2

(***************************************************************************)
(* Small helpers on sequences.                                             *)
(***************************************************************************)
\* Python's s[::-1]
Reverse(s) == [k \in 1..Len(s) |-> s[Len(s) + 1 - k]]

Min(a, b) == IF a < b THEN a ELSE b

Max(a, b) == IF a < b THEN b ELSE a

\* the subsequence of s at the positions where keep is TRUE, in order
RECURSIVE Filter(_, _)
Filter(s, keep) ==
    IF Len(s) = 0 THEN << >>
    ELSE IF Head(keep) THEN << Head(s) >> \o Filter(Tail(s), Tail(keep))
         ELSE Filter(Tail(s), Tail(keep))

(***************************************************************************)
(* Selections.  An entry of a selection is a plain integer, a slice with   *)
(* optional start/stop/step, or an ellipsis.  An optional value is << >>   *)
(* when unset (None) and << v >> when set.                                 *)
(***************************************************************************)
None == << >>

IntEntry(i) == [kind |-> "int", idx |-> i, start |-> None, stop |-> None, step |-> None]

SliceEntry(a, b, c) == [kind |-> "slice", idx |-> 0, start |-> a, stop |-> b, step |-> c]

EllipsisEntry == [kind |-> "ellipsis", idx |-> 0, start |-> None, stop |-> None, step |-> None]

\* slice(None): a whole axis
FullSlice == SliceEntry(None, None, None)

\* isinstance(slc, slice); hasattr(slc, 'start') holds of exactly the slices
IsSlice(e) == e.kind = "slice"

\* a selection as the caller writes it: a tuple of entries, or one bare entry
TupleSel(items) == [bare |-> FALSE, items |-> items]

BareSel(e) == [bare |-> TRUE, items |-> << e >>]

(***************************************************************************)
(* Selection normalisation: the reversal at the call and sanitize_slices   *)
(* (astropy.wcs.wcsapi.sliced_low_level_wcs), which the adapter calls on   *)
(* the reversed selection.                                                 *)
(***************************************************************************)
\* value[::-1]: a tuple is reversed; a bare int, slice or Ellipsis is not
\* subscriptable and raises TypeError
ReverseSel(sel) ==
    IF sel.bare THEN [ok |-> FALSE, err |-> "TypeError", items |-> << >>]
    ELSE [ok |-> TRUE, err |-> "", items |-> Reverse(sel.items)]

\* the positions of the ellipses of a tuple
EllipsisAt(items) == {k \in 1..Len(items) : items[k].kind = "ellipsis"}

\* replace the single Ellipsis by the slice(None)s that fill the tuple up to ndim
ExpandEllipsis(items, ndim) ==
    IF EllipsisAt(items) = {} THEN items
    ELSE LET e == CHOOSE k \in EllipsisAt(items) : TRUE
             n == ndim - (Len(items) - 1)
         IN  SubSeq(items, 1, e - 1) \o [k \in 1..n |-> FullSlice]
                 \o SubSeq(items, e + 1, Len(items))

\* append slice(None) for every dimension the tuple does not name
PadSlices(items, ndim) ==
    items \o [k \in 1..(ndim - Len(items)) |-> FullSlice]

\* a slice whose step is set and is neither 0 nor 1 is refused
BadStep(e) == IsSlice(e) /\ e.step # None /\ e.step[1] # 0 /\ e.step[1] # 1

sanitize_slices(items, ndim) ==
    IF Len(items) > ndim
    THEN [ok |-> FALSE, err |-> "ValueError", items |-> << >>]
    ELSE IF Cardinality(EllipsisAt(items)) > 1
    THEN [ok |-> FALSE, err |-> "IndexError", items |-> << >>]
    ELSE IF \E k \in 1..Len(items) : BadStep(items[k])
    THEN [ok |-> FALSE, err |-> "IndexError", items |-> << >>]
    ELSE [ok |-> TRUE, err |-> "",
          items |-> PadSlices(ExpandEllipsis(items, ndim), ndim)]

\* line 114: value = sanitize_slices(value[::-1], self.ndim)
Normalize(sel, ndim) ==
    IF ReverseSel(sel).ok THEN sanitize_slices(ReverseSel(sel).items, ndim)
    ELSE ReverseSel(sel)

(***************************************************************************)
(* Begin/end/stride mapping of __getitem__ (lines 116-119).                *)
(***************************************************************************)
\* Python's (x or d) on an optional integer: d when x is None or 0
OrDefault(x, d) == IF x = None \/ x[1] = 0 THEN d ELSE x[1]

BlcOf(e) == IF IsSlice(e) THEN OrDefault(e.start, -1) ELSE e.idx

TrcOf(e) == IF IsSlice(e) THEN (IF e.stop # None THEN e.stop[1] - 1 ELSE -1) ELSE e.idx

IncOf(e) == IF IsSlice(e) THEN OrDefault(e.step, 1) ELSE 1

Blc(value) == [k \in 1..Len(value) |-> BlcOf(value[k])]

Trc(value) == [k \in 1..Len(value) |-> TrcOf(value[k])]

Inc(value) == [k \in 1..Len(value) |-> IncOf(value[k])]

(***************************************************************************)
(* Arrays: a shape and the element at every coordinate (0-based).          *)
(***************************************************************************)
RECURSIVE Coords(_)
Coords(shape) ==
    IF Len(shape) = 0 THEN {<< >>}
    ELSE {<< i >> \o c : i \in 0..(Head(shape) - 1), c \in Coords(Tail(shape))}

Array(shape, f(_)) == [shape |-> shape, at |-> [c \in Coords(shape) |-> f(c)]]

\* ndarray.transpose(): the axes reversed
Transposed(a) ==
    LET at(c) == a.at[Reverse(c)] IN Array(Reverse(a.shape), at)

\* the coordinate of the full array that coordinate c of the view stands for,
\* where the view takes index 0 on every axis whose entry is not a slice
RECURSIVE Expand(_, _)
Expand(c, view) ==
    IF Len(view) = 0 THEN << >>
    ELSE IF IsSlice(Head(view)) THEN << Head(c) >> \o Expand(Tail(c), Tail(view))
         ELSE << Head(view).idx >> \o Expand(c, Tail(view))

\* NewView gone wrong: every axis kept, the integer ones too
NewViewKeepsAll(value) == [k \in 1..Len(value) |-> FullSlice]

\* lines 137-138: slice(None) for a slice entry, 0 for an integer entry
NewView(value) ==
    [k \in 1..Len(value) |-> IF IsSlice(value[k]) THEN FullSlice ELSE IntEntry(0)]

\* data[tuple(new_view)] for a view made of slice(None) and 0
TakeView(data, view) ==
    LET at(c) == data.at[Expand(c, view)]
    IN  Array(Filter(data.shape, [k \in 1..Len(view) |-> IsSlice(view[k])]), at)

(***************************************************************************)
(* The external image service: the image on disk and getchunk.             *)
(***************************************************************************)
\* the pixel stored at a native coordinate: distinct for distinct coordinates
RECURSIVE Pixel(_)
Pixel(c) == IF Len(c) = 0 THEN 0 ELSE Head(c) + (MaxExtent + 1) * Pixel(Tail(c))

\* the validity mask stored at a native coordinate
RECURSIVE MaskBit(_)
MaskBit(c) == IF Len(c) = 0 THEN TRUE ELSE (Head(c) % 2 = 0) = MaskBit(Tail(c))

Stored(c, getmask) == IF getmask THEN [mask |-> MaskBit(c)] ELSE [pix |-> Pixel(c)]

\* the service's reading of one axis of a region: out-of-range corners and an
\* inverted or oversized stride fall back to the whole axis / stride 1
BoxLo(n, b, e) ==
    LET b1 == IF b < 0 \/ b > n - 1 THEN 0 ELSE b
        e1 == IF e < 0 \/ e > n - 1 THEN n - 1 ELSE e
    IN  IF b1 > e1 THEN 0 ELSE b1

BoxHi(n, b, e) ==
    LET b1 == IF b < 0 \/ b > n - 1 THEN 0 ELSE b
        e1 == IF e < 0 \/ e > n - 1 THEN n - 1 ELSE e
    IN  IF b1 > e1 THEN n - 1 ELSE e1

BoxInc(n, b, e, s) ==
    IF s < 1 \/ s > BoxHi(n, b, e) - BoxLo(n, b, e) + 1 THEN 1 ELSE s

\* ia.getchunk(blc, trc, inc, getmask): the region in native axis order, with
\* every axis kept (an axis read at a single point has extent 1)
getchunk(shape, blc, trc, inc, getmask) ==
    LET lo(k) == BoxLo(shape[k], blc[k], trc[k])
        hi(k) == BoxHi(shape[k], blc[k], trc[k])
        st(k) == BoxInc(shape[k], blc[k], trc[k], inc[k])
        at(c) == Stored([k \in 1..Len(shape) |-> lo(k) + c[k] * st(k)], getmask)
    IN  Array([k \in 1..Len(shape) |-> (hi(k) - lo(k)) \div st(k) + 1], at)

\* lines 133-140: fetch, drop the integer axes, transpose
Fetched(shape, value, getmask) ==
    Transposed(TakeView(getchunk(shape, Blc(value), Trc(value), Inc(value), getmask),
                        NewView(value)))

(***************************************************************************)
(* State.                                                                  *)
(***************************************************************************)
VARIABLES
    imgShape,   \* the shape of the image on disk, in the service's axis order
    sessions,   \* the live tools that hold an open session on the image path
    adapter,    \* the ArraylikeCasaData instance the caller holds
    sel,        \* the selection of the pending or latest element access
    repeated,   \* the latest element access repeats the selection before it
    sent,       \* what the latest element access handed to getchunk
    calls,      \* the service calls of the latest operation, in order
    raised,     \* what the service raised at the latest open, if it failed
    ret,        \* what the latest operation gave back to its caller
    pc,         \* where a running load_casa_image stands
    ld          \* the locals of the running or latest load_casa_image

vars == << imgShape, sessions, adapter, sel, repeated, sent, calls, raised, ret, pc, ld >>

Extents == 1..MaxExtent

\* the image shapes of the model: 1 to MaxDim axes
ImageShapes == UNION {[1..n -> Extents] : n \in 1..MaxDim}

NoAdapter == [built |-> FALSE, getmask |-> FALSE, cache |-> << >>]

NoValue == [kind |-> "none"]

NoLoad == [skipdata |-> FALSE, skipvalid |-> FALSE, data |-> FALSE, valid |-> FALSE,
           naxis |-> 0, rec |-> NoValue, beam |-> NoValue, warned |-> FALSE, comps |-> {}]

Call(tool, name) == [tool |-> tool, call |-> name]

(***************************************************************************)
(* Opening a session (lines 81-88, 124-131, 163-170).                      *)
(***************************************************************************)
\* what ia.open may do: succeed, or raise one of these
OpenOutcomes == {"ok", "nopath", "assert", "runtime"}

\* the exception the service raises for a failed open
OpenRaises(o) ==
    CASE o = "nopath"  -> [type |-> "AssertionError", msg |-> "must be of cReqPath type"]
      [] o = "assert"  -> [type |-> "AssertionError", msg |-> "other"]
      [] o = "runtime" -> [type |-> "RuntimeError", msg |-> "other"]

\* OnOpenFailure gone wrong: every AssertionError reported as file not found
OnOpenFailureMasksAll(ex) ==
    IF ex.type = "AssertionError" THEN [type |-> "IOError", msg |-> "File not found"] ELSE ex

\* except AssertionError as ex: IOError for the path signal, else raise ex;
\* any other exception type is not caught
OnOpenFailure(ex) ==
    IF ex.type = "AssertionError"
    THEN IF ex.msg = "must be of cReqPath type"
         THEN [type |-> "IOError", msg |-> "File not found"]
         ELSE ex
    ELSE ex

Error(ex) == [kind |-> "error", exc |-> ex]

(***************************************************************************)
(* ArraylikeCasaData.                                                      *)
(***************************************************************************)
\* a name is bound to a fresh tool (self.ia = self.iatool(), ia = image()):
\* the tool it named before is no longer referenced, and its session, if it
\* was left open, is no longer one of a live tool
Dropped(ss, tool) == ss \ {tool}

\* the cached properties: shape queries the service and reverses, ndim is the
\* length of shape, dtype queries the service
CacheAfterInit(shape) ==
    [k \in {"shape", "ndim", "dtype"} |->
        CASE k = "shape" -> Reverse(shape)
          [] k = "ndim"  -> Len(shape)
          [] k = "dtype" -> "float"]

\* __init__ (lines 60-94): open, shape, pixeltype, close
Construct(getmask, o) ==
    /\ pc = "idle"
    /\ calls' = IF o = "ok"
                THEN << Call("self.ia", "open"), Call("self.ia", "shape"),
                        Call("self.ia", "pixeltype"), Call("self.ia", "close") >>
                ELSE << Call("self.ia", "open") >>
    /\ raised' = IF o = "ok" THEN NoValue ELSE Error(OpenRaises(o))
    /\ ret' = IF o = "ok" THEN [kind |-> "adapter"] ELSE Error(OnOpenFailure(OpenRaises(o)))
    /\ adapter' = IF o = "ok"
                  THEN [built |-> TRUE, getmask |-> getmask, cache |-> CacheAfterInit(imgShape)]
                  ELSE adapter
    /\ sessions' = IF o = "ok" THEN Dropped(sessions, "self.ia") ELSE sessions
    /\ sel' = NoValue
    /\ repeated' = FALSE
    /\ sent' = NoValue
    /\ ld' = NoLoad
    /\ UNCHANGED << imgShape, pc >>

\* the shape, ndim and dtype properties (lines 96-109): served from the cache
\* when it holds them, else from the service
ReadMeta ==
    /\ pc = "idle"
    /\ adapter.built
    /\ calls' = (IF "shape" \in DOMAIN adapter.cache THEN << >> ELSE << Call("self.ia", "shape") >>)
                \o (IF "dtype" \in DOMAIN adapter.cache THEN << >> ELSE << Call("self.ia", "pixeltype") >>)
    /\ ret' = [kind |-> "meta", shape |-> Reverse(imgShape), ndim |-> Len(imgShape)]
    /\ raised' = NoValue
    /\ sel' = NoValue
    /\ repeated' = FALSE
    /\ sent' = NoValue
    /\ ld' = NoLoad
    /\ UNCHANGED << imgShape, sessions, adapter, pc >>

\* the session set after an element access that got as far as self.ia = iatool()
SessionsAfterGetItem(ss, o, f) ==
    IF o = "ok" /\ f # "ok" THEN Dropped(ss, "self.ia") \cup {"self.ia"}
    ELSE Dropped(ss, "self.ia")

\* the service calls of an element access
CallsOfGetItem(o, f) ==
    IF o # "ok" THEN << Call("self.ia", "open") >>
    ELSE IF f # "ok" THEN << Call("self.ia", "open"), Call("self.ia", "getchunk") >>
    ELSE << Call("self.ia", "open"), Call("self.ia", "getchunk"), Call("self.ia", "close") >>

\* __getitem__ (lines 112-140)
GetItem(s, o, f) ==
    /\ pc = "idle"
    /\ adapter.built
    /\ sel' = s
    /\ repeated' = (sel = s /\ ret.kind = "array")
    /\ raised' = IF Normalize(s, adapter.cache["ndim"]).ok /\ o # "ok"
                 THEN Error(OpenRaises(o)) ELSE NoValue
    /\ LET norm  == Normalize(s, adapter.cache["ndim"])
           value == norm.items
       IN  IF ~norm.ok
           THEN /\ ret' = Error([type |-> norm.err, msg |-> "selection"])
                /\ calls' = << >>
                /\ sent' = NoValue
                /\ sessions' = sessions
           ELSE /\ calls' = CallsOfGetItem(o, f)
                /\ sessions' = SessionsAfterGetItem(sessions, o, f)
                /\ sent' = IF o = "ok"
                           THEN [kind |-> "region", value |-> value, blc |-> Blc(value),
                                 trc |-> Trc(value), inc |-> Inc(value),
                                 getmask |-> adapter.getmask]
                           ELSE NoValue
                /\ ret' = IF o # "ok" THEN Error(OnOpenFailure(OpenRaises(o)))
                          ELSE IF f # "ok" THEN Error([type |-> "RuntimeError", msg |-> "getchunk"])
                          ELSE [kind |-> "array",
                                array |-> Fetched(imgShape, value, adapter.getmask)]
    /\ ld' = NoLoad
    /\ UNCHANGED << imgShape, adapter, pc >>

(***************************************************************************)
(* The beam record of the service and its normalisation (lines 192-218).   *)
(***************************************************************************)
\* the largest number of channels of a per-channel beam table
MaxChan == 2
\* the largest number of polarizations a beam table reports
MaxStokes == 2

AngleUnits == {"arcsec", "arcmin"}

\* arcseconds per unit
UnitScale(u) == IF u = "arcmin" THEN 60 ELSE 1

\* u.Quantity(value, unit)
Quantity(raw) == [value |-> raw.value, unit |-> raw.unit]

\* a quantity expressed in another unit
ConvertTo(q, u) == [value |-> (q.value * UnitScale(q.unit)) \div UnitScale(u), unit |-> u]

\* u.Quantity(list of quantities): all in the unit of the first
QuantityList(qs) == [k \in 1..Len(qs) |-> ConvertTo(qs[k], qs[1].unit)]

\* the raw {value, unit} the service stores for an angle of m arcminutes
Raw(m, u) == [value |-> (m * 60) \div UnitScale(u), unit |-> u]

\* the beam the service stores for channel i and polarization p; the unit
\* alternates from channel to channel, starting from u
ChannelUnit(i, u) == IF i % 2 = 0 THEN u ELSE CHOOSE v \in AngleUnits : v # u

StoredBeam(i, p, u) ==
    [major         |-> Raw(20 + i + 100 * p, ChannelUnit(i, u)),
     minor         |-> Raw(10 + i + 100 * p, ChannelUnit(i, u)),
     positionangle |-> Raw(1 + i + 100 * p, ChannelUnit(i, u))]

\* a record of ia.restoringbeam(): the keys present, the scalar triple under
\* 'major', 'minor', 'positionangle', and 'nChannels', 'nStokes' and the table
\* 'beams', keyed by channel, then by polarization
BeamRecord(ks, u, nc, np, n) ==
    [keys |-> ks, scalar |-> StoredBeam(7, 0, u), nChannels |-> nc, nStokes |-> np,
     beams |-> [i \in 0..(n - 1) |-> [q \in 0..(np - 1) |-> StoredBeam(i, q, u)]]]

\* the records the service may return: no beam, a scalar beam, a table of 1 to
\* MaxChan channels and 1 to MaxStokes polarizations whose reported channel
\* count may be off, or both forms at once
BeamRecords ==
    {BeamRecord({}, "arcsec", 1, 1, 1)}
        \cup {BeamRecord({"major"}, u, 1, 1, 1) : u \in AngleUnits}
        \cup {BeamRecord(ks, u, nc, np, n) :
                 ks \in {{"beams"}, {"major", "beams"}}, u \in AngleUnits,
                 nc \in 1..MaxChan, np \in 1..MaxStokes, n \in 1..MaxChan}

\* nbeams = len(bdict)
NBeams(rec) == Cardinality(DOMAIN rec.beams)

\* lines 194-197
ScalarBeam(rec) ==
    [kind |-> "beam",
     major |-> Quantity(rec.scalar.major),
     minor |-> Quantity(rec.scalar.minor),
     pa    |-> Quantity(rec.scalar.positionangle)]

\* stokesidx = '*0'
stokesidx == 0

\* TableBeams gone wrong: the channels taken last to first
TableBeamsReversed(rec) ==
    LET n == Cardinality(DOMAIN rec.beams)
    IN  [kind |-> "beams",
         major |-> [k \in 1..n |-> [value |-> rec.beams[n - k][0].major.value,
                                    unit |-> rec.beams[n - k][0].major.unit]],
         minor |-> [k \in 1..n |-> [value |-> rec.beams[n - k][0].minor.value,
                                    unit |-> rec.beams[n - k][0].minor.unit]],
         pa    |-> [k \in 1..n |-> [value |-> rec.beams[n - k][0].positionangle.value,
                                    unit |-> rec.beams[n - k][0].positionangle.unit]]]

\* lines 206-215: one list per field over range(nbeams), then Beams
TableBeams(rec) ==
    LET majors == [k \in 1..NBeams(rec) |-> Quantity(rec.beams[k - 1][stokesidx].major)]
        minors == [k \in 1..NBeams(rec) |-> Quantity(rec.beams[k - 1][stokesidx].minor)]
        pas    == [k \in 1..NBeams(rec) |-> Quantity(rec.beams[k - 1][stokesidx].positionangle)]
    IN  [kind |-> "beams",
         major |-> QuantityList(majors),
         minor |-> QuantityList(minors),
         pa    |-> QuantityList(pas)]

\* NormalizeBeam gone wrong: the channel count is not compared
NormalizeBeamUnchecked(rec) ==
    IF "major" \in rec.keys THEN ScalarBeam(rec)
    ELSE IF "beams" \in rec.keys
    THEN IF rec.nStokes > 1 THEN Error([type |-> "NotImplementedError", msg |-> ""])
         ELSE TableBeams(rec)
    ELSE NoValue

\* lines 193-218: the beam the load keeps, or the error it raises
NormalizeBeam(rec) ==
    IF "major" \in rec.keys THEN ScalarBeam(rec)
    ELSE IF "beams" \in rec.keys
    THEN IF rec.nStokes > 1 THEN Error([type |-> "NotImplementedError", msg |-> ""])
         ELSE IF NBeams(rec) # rec.nChannels
         THEN Error([type |-> "AssertionError", msg |-> "nbeams"])
         ELSE TableBeams(rec)
    ELSE NoValue

(***************************************************************************)
(* load_casa_image (lines 143-302), one step per stretch between the       *)
(* points where a session opens or closes or the load may raise.           *)
(***************************************************************************)
\* the axis counts a coordinate system may report
AxisCounts == 2..5

\* the polarization components _split_stokes may find on a 4-axis image
ComponentSets == {{"I"}, {"I", "Q"}, {"I", "Q", "U", "V"}}

\* the load raises: control returns to the caller
LoadRaises(ex) ==
    /\ ret' = Error(ex)
    /\ pc' = "idle"

\* lines 152-170: ia = image(); ia.open(filename)
LoadOpen(skipdata, skipvalid, o) ==
    /\ pc = "idle"
    /\ calls' = << Call("ia", "open") >>
    /\ sel' = NoValue
    /\ repeated' = FALSE
    /\ sent' = NoValue
    /\ IF o = "ok"
       THEN /\ raised' = NoValue
            /\ sessions' = Dropped(sessions, "ia") \cup {"ia"}
            /\ ret' = [kind |-> "running"]
            /\ pc' = "data"
            /\ ld' = [NoLoad EXCEPT !.skipdata = skipdata, !.skipvalid = skipvalid]
       ELSE /\ raised' = Error(OpenRaises(o))
            /\ sessions' = Dropped(sessions, "ia")
            /\ ld' = NoLoad
            /\ LoadRaises(OnOpenFailure(OpenRaises(o)))
    /\ UNCHANGED << imgShape, adapter >>

\* the calls of ArraylikeCasaData(filename, ...) made by the load on tool t
CallsOfInit(t, o) ==
    IF o = "ok"
    THEN << Call(t, "open"), Call(t, "shape"), Call(t, "pixeltype"), Call(t, "close") >>
    ELSE << Call(t, "open") >>

\* lines 173-175: data = from_array(ArraylikeCasaData(filename))
LoadData(o) ==
    /\ pc = "data"
    /\ IF ld.skipdata
       THEN /\ pc' = "valid"
            /\ UNCHANGED << calls, raised, ret, ld >>
       ELSE /\ calls' = calls \o CallsOfInit("data.ia", o)
            /\ IF o = "ok"
               THEN /\ pc' = "valid"
                    /\ ld' = [ld EXCEPT !.data = TRUE]
                    /\ UNCHANGED << raised, ret >>
               ELSE /\ raised' = Error(OpenRaises(o))
                    /\ ld' = ld
                    /\ LoadRaises(OnOpenFailure(OpenRaises(o)))
    /\ UNCHANGED << imgShape, sessions, adapter, sel, repeated, sent >>

\* lines 178-181: valid = from_array(ArraylikeCasaData(filename, getmask))
LoadValid(o) ==
    /\ pc = "valid"
    /\ IF ld.skipvalid
       THEN /\ pc' = "bridge"
            /\ UNCHANGED << calls, raised, ret, ld >>
       ELSE /\ calls' = calls \o CallsOfInit("valid.ia", o)
            /\ IF o = "ok"
               THEN /\ pc' = "bridge"
                    /\ ld' = [ld EXCEPT !.valid = TRUE]
                    /\ UNCHANGED << raised, ret >>
               ELSE /\ raised' = Error(OpenRaises(o))
                    /\ ld' = ld
                    /\ LoadRaises(OnOpenFailure(OpenRaises(o)))
    /\ UNCHANGED << imgShape, sessions, adapter, sel, repeated, sent >>

\* lines 186-190: coordsys, wcs_casa2astropy (lines 37-55), brightnessunit;
\* a failure of the export or of the parse passes through
LoadBridge(naxis, b) ==
    /\ pc = "bridge"
    /\ IF b = "ok"
       THEN /\ calls' = calls \o << Call("ia", "coordsys"), Call("ia", "newimagefromarray"),
                                    Call("ia", "brightnessunit") >>
            /\ ld' = [ld EXCEPT !.naxis = naxis]
            /\ pc' = "beam"
            /\ ret' = ret
       ELSE /\ calls' = calls \o << Call("ia", "coordsys"), Call("ia", "newimagefromarray") >>
            /\ ld' = ld
            /\ LoadRaises([type |-> "RuntimeError", msg |-> "exportfits"])
    /\ UNCHANGED << imgShape, sessions, adapter, sel, repeated, sent, raised >>

\* lines 192-218: beam_ = ia.restoringbeam() and its normalisation
LoadBeam(rec) ==
    /\ pc = "beam"
    /\ calls' = calls \o << Call("ia", "restoringbeam") >>
    /\ IF NormalizeBeam(rec).kind = "error"
       THEN /\ ld' = [ld EXCEPT !.rec = rec]
            /\ LoadRaises(NormalizeBeam(rec).exc)
       ELSE /\ ld' = [ld EXCEPT !.rec = rec, !.beam = NormalizeBeam(rec),
                                !.warned = (NormalizeBeam(rec).kind = "none")]
            /\ pc' = "close"
            /\ ret' = ret
    /\ UNCHANGED << imgShape, sessions, adapter, sel, repeated, sent, raised >>

\* line 246: ia.close()
LoadClose ==
    /\ pc = "close"
    /\ calls' = calls \o << Call("ia", "close") >>
    /\ sessions' = sessions \ {"ia"}
    /\ pc' = "assemble"
    /\ UNCHANGED << imgShape, adapter, sel, repeated, sent, raised, ret, ld >>

\* lines 257-262 and 278-289: the cube built from whichever of beam, beams is bound
CubeWith(beam) ==
    IF beam.kind = "beam"
    THEN [class |-> "SpectralCube", attr |-> "beam", beam |-> beam]
    ELSE IF beam.kind = "beams"
    THEN [class |-> "VaryingResolutionSpectralCube", attr |-> "beams", beam |-> beam]
    ELSE [class |-> "SpectralCube", attr |-> "none", beam |-> NoValue]

\* Assemble gone wrong: every axis count but 3 is split like a 4-axis image
AssembleAnyAxes(naxis, comps, hasdata, hasvalid, beam, warned) ==
    IF ~hasdata \/ ~hasvalid
    THEN Error([type |-> "UnboundLocalError", msg |-> "data or valid"])
    ELSE IF naxis = 3
    THEN [kind |-> "cube", cube |-> CubeWith(beam), warned |-> warned]
    ELSE [kind |-> "stokes", cubes |-> [c \in comps |-> CubeWith(beam)], warned |-> warned]

\* lines 252-302: the outcome by axis count; data and valid are read in the
\* 3- and 4-axis branches and are unbound when their read was skipped
Assemble(naxis, comps, hasdata, hasvalid, beam, warned) ==
    IF naxis = 3 \/ naxis = 4
    THEN IF ~hasdata \/ ~hasvalid
         THEN Error([type |-> "UnboundLocalError", msg |-> "data or valid"])
         ELSE IF naxis = 3
         THEN [kind |-> "cube", cube |-> CubeWith(beam), warned |-> warned]
         ELSE [kind |-> "stokes", cubes |-> [c \in comps |-> CubeWith(beam)],
               warned |-> warned]
    ELSE Error([type |-> "ValueError", msg |-> "CASA image has other dimensions"])

LoadAssemble(comps) ==
    /\ pc = "assemble"
    /\ ret' = Assemble(ld.naxis, comps, ld.data, ld.valid, ld.beam, ld.warned)
    /\ ld' = [ld EXCEPT !.comps = IF ld.naxis = 4 THEN comps ELSE {}]
    /\ pc' = "idle"
    /\ UNCHANGED << imgShape, sessions, adapter, sel, repeated, sent, calls, raised >>

(***************************************************************************)
(* The reference: the whole volume loaded eagerly, in conventional axis    *)
(* order, and indexed in memory (tests test_casa_read, test_casa_read_     *)
(* nomask compare against it).                                             *)
(***************************************************************************)
\* the whole image as the service returns it with the default region
WholeNative(shape, getmask) ==
    LET at(c) == Stored(c, getmask) IN Array(shape, at)

\* the whole volume in conventional order
Eager(shape, getmask) == Transposed(WholeNative(shape, getmask))

\* standard expansion of a selection to one entry per dimension
StdNormalize(s, ndim) ==
    IF Len(s.items) - Cardinality(EllipsisAt(s.items)) > ndim
           \/ Cardinality(EllipsisAt(s.items)) > 1
    THEN [ok |-> FALSE, items |-> << >>]
    ELSE [ok |-> TRUE,
          items |-> PadSlices(
              IF EllipsisAt(s.items) = {} THEN s.items
              ELSE LET e == CHOOSE k \in EllipsisAt(s.items) : TRUE
                   IN  SubSeq(s.items, 1, e - 1)
                           \o [k \in 1..(ndim - (Len(s.items) - 1)) |-> FullSlice]
                           \o SubSeq(s.items, e + 1, Len(s.items)),
              ndim)]

\* first index and length that a slice with step 1 selects on an axis of extent n
StdLo(e, n) == IF e.start = None THEN 0 ELSE Min(e.start[1], n)

StdLen(e, n) ==
    Max(0, (IF e.stop = None THEN n ELSE Min(e.stop[1], n)) - StdLo(e, n))

\* the coordinate of the whole array that coordinate c of the result stands for
RECURSIVE StdCoord(_, _, _)
StdCoord(c, items, shape) ==
    IF Len(items) = 0 THEN << >>
    ELSE IF IsSlice(Head(items))
         THEN << StdLo(Head(items), Head(shape)) + Head(c) >>
                  \o StdCoord(Tail(c), Tail(items), Tail(shape))
         ELSE << Head(items).idx >> \o StdCoord(c, Tail(items), Tail(shape))

\* a[items] for a full-length selection of in-range integers and step-1 slices
StdIndex(a, items) ==
    LET at(c) == a.at[StdCoord(c, items, a.shape)]
        lens  == [k \in 1..Len(items) |->
                     IF IsSlice(items[k]) THEN StdLen(items[k], a.shape[k]) ELSE 1]
    IN  Array(Filter(lens, [k \in 1..Len(items) |-> IsSlice(items[k])]), at)

(***************************************************************************)
(* The selections of the model.                                            *)
(***************************************************************************)
Optional(S) == {None} \cup {<< v >> : v \in S}

\* every slice with start in 0..MaxExtent-1 and stop in 0..MaxExtent, set or
\* unset, with the step unset, and two slices with the step set
Slices ==
    {SliceEntry(a, b, None) : a \in Optional(0..(MaxExtent - 1)), b \in Optional(0..MaxExtent)}
        \cup {SliceEntry(None, None, << 1 >>), SliceEntry(<< 0 >>, << 1 >>, << 1 >>)}

Ints == {IntEntry(i) : i \in 0..(MaxExtent - 1)}

Entries == Slices \cup Ints \cup {EllipsisEntry}

\* the selections a caller may write for an array of conventional shape cshape:
\* a bare entry or a tuple, that standard indexing accepts
Selections(cshape) ==
    {s \in {BareSel(e) : e \in Entries}
           \cup {TupleSel(t) : t \in UNION {[1..n -> Entries] : n \in 0..Len(cshape)}} :
        /\ StdNormalize(s, Len(cshape)).ok
        /\ \A k \in 1..Len(cshape) :
              LET e == StdNormalize(s, Len(cshape)).items[k]
              IN  e.kind = "int" => e.idx < cshape[k]}

\* a selection has one entry per dimension, none of them an ellipsis
FullLength(s, ndim) ==
    ~s.bare /\ Len(s.items) = ndim /\ EllipsisAt(s.items) = {}

OnlySlices(s) == \A k \in 1..Len(s.items) : IsSlice(s.items[k])

(***************************************************************************)
(* SpecIndex: one element access on a constructed adapter, for every       *)
(* image shape and every selection, with a service that answers.           *)
(***************************************************************************)
InitIndex ==
    /\ imgShape \in ImageShapes
    /\ sessions = {}
    /\ adapter = [built |-> TRUE, getmask |-> FALSE, cache |-> CacheAfterInit(imgShape)]
    /\ sel \in Selections(Reverse(imgShape))
    /\ repeated = FALSE
    /\ sent = NoValue
    /\ calls = << Call("self.ia", "open"), Call("self.ia", "shape"),
                  Call("self.ia", "pixeltype"), Call("self.ia", "close") >>
    /\ raised = NoValue
    /\ ret = [kind |-> "adapter"]
    /\ pc = "idle"
    /\ ld = NoLoad

\* the caller indexes the adapter it has just built with the selection drawn
NextIndex ==
    /\ ret.kind = "adapter"
    /\ GetItem(sel, "ok", "ok")

SpecIndex == InitIndex /\ [][NextIndex]_vars

(***************************************************************************)
(* Properties of element access (SpecIndex).                               *)
(***************************************************************************)
\* the element access of the selection drawn has returned to its caller
Accessed == sel # NoValue /\ ret.kind # "adapter"

\* C1: for every shape and every full-length selection made only of slices,
\* __getitem__ returns the array (shape and values) that the same selection
\* returns on the eagerly loaded whole volume in conventional axis order.
C1_SlicesMatchEager ==
    (Accessed /\ FullLength(sel, Len(imgShape)) /\ OnlySlices(sel))
        => /\ ret.kind = "array"
           /\ ret.array = StdIndex(Eager(imgShape, adapter.getmask), sel.items)

\* the conventional positions of the slice entries of a full-length selection,
\* in order
RECURSIVE KeptFrom(_, _)
KeptFrom(items, k) ==
    IF k > Len(items) THEN << >>
    ELSE IF IsSlice(items[k]) THEN << k >> \o KeptFrom(items, k + 1)
         ELSE KeptFrom(items, k + 1)

Kept(items) == KeptFrom(items, 1)

\* the first index and the extent of the region fetched on the native axis
\* that holds conventional axis k
FetchedLo(k) ==
    LET n == Len(imgShape) + 1 - k
    IN  BoxLo(imgShape[n], sent.blc[n], sent.trc[n])

FetchedLen(k) ==
    LET n == Len(imgShape) + 1 - k
    IN  BoxHi(imgShape[n], sent.blc[n], sent.trc[n]) - BoxLo(imgShape[n], sent.blc[n], sent.trc[n]) + 1

\* the native coordinate behind coordinate c of the result, when result axis j
\* is conventional axis Kept[j] and integer entries fix their own axis
NativeOf(c, items) ==
    LET conv == [k \in 1..Len(items) |->
                    IF IsSlice(items[k])
                    THEN FetchedLo(k) + c[CHOOSE j \in 1..Len(Kept(items)) : Kept(items)[j] = k]
                    ELSE items[k].idx]
    IN  Reverse(conv)

\* C2: for every full-length selection, the result has exactly one axis per
\* slice entry and none per integer entry (a length-1 slice keeps its axis),
\* and the kept axes appear in conventional order: result axis j is the j-th
\* slice entry's axis, with the extent fetched for it and its elements.
C2_IntegerAxesDropped ==
    (Accessed /\ FullLength(sel, Len(imgShape)))
        => /\ ret.kind = "array"
           /\ Len(ret.array.shape) = Cardinality({k \in 1..Len(sel.items) : IsSlice(sel.items[k])})
           /\ \A j \in 1..Len(ret.array.shape) :
                 ret.array.shape[j] = FetchedLen(Kept(sel.items)[j])
           /\ \A c \in Coords(ret.array.shape) :
                 ret.array.at[c] = Stored(NativeOf(c, sel.items), adapter.getmask)

\* an integer entry beside a length-1 slice: only the slice's axis is kept
C2_Witness ==
    /\ Accessed
    /\ sel = TupleSel(<< IntEntry(1), SliceEntry(<< 1 >>, << 2 >>, None) >>)
    /\ imgShape = << 2, 2 >>
    /\ ret.kind = "array"
    /\ ret.array.shape = << 1 >>
    /\ ret.array.at[<< 0 >>] = Stored(<< 1, 1 >>, FALSE)

\* a selection that leaves something out: a bare entry, an ellipsis, or fewer
\* entries than dimensions
Abbreviated(s, ndim) == ~FullLength(s, ndim)

\* C3: an abbreviated selection is expanded to one entry per dimension with
\* standard indexing semantics before the axis order is reversed: the region
\* requested is the reversal of the standard expansion, so the entries given
\* apply to the leading conventional axes and omitted axes are whole.
C3_AbbreviatedExpandedFirst ==
    (Accessed /\ Abbreviated(sel, Len(imgShape)))
        => /\ sent.kind = "region"
           /\ sent.value = Reverse(StdNormalize(sel, Len(imgShape)).items)

\* the begin/end/stride triple the specification gives for one entry
SpecBlc(e) == IF IsSlice(e) THEN (IF e.start # None THEN e.start[1] ELSE -1) ELSE e.idx

SpecTrc(e) == IF IsSlice(e) THEN (IF e.stop # None THEN e.stop[1] - 1 ELSE -1) ELSE e.idx

SpecInc(e) == IF IsSlice(e) THEN (IF e.step # None THEN e.step[1] ELSE 1) ELSE 1

\* C4: for every dimension the triple sent to the fetch is, for a slice,
\* (start if set else -1, stop-1 if set else -1, step if set else 1) and, for
\* an integer, that integer as begin and end; a set start, 0 included, is
\* emitted as given.
C4_TripleAsSpecified ==
    (Accessed /\ sent.kind = "region")
        => \A k \in 1..Len(sent.value) :
              /\ sent.blc[k] = SpecBlc(sent.value[k])
              /\ sent.trc[k] = SpecTrc(sent.value[k])
              /\ sent.inc[k] = SpecInc(sent.value[k])

(***************************************************************************)
(* Spec: a caller that builds adapters, reads their properties, indexes    *)
(* them and loads cubes, in any order, over a service that may fail.       *)
(***************************************************************************)
\* the selections the caller uses here: whole axes, a single element, and a
\* bare integer
FewSelections(ndim) ==
    {TupleSel([k \in 1..ndim |-> FullSlice]), TupleSel([k \in 1..ndim |-> IntEntry(0)]),
     BareSel(IntEntry(0))}

FetchOutcomes == {"ok", "fail"}

\* the images the caller works on here: one of each number of axes
CubeShapes == {[k \in 1..n |-> Min(k, MaxExtent)] : n \in 1..MaxDim}

Init ==
    /\ imgShape \in CubeShapes
    /\ sessions = {}
    /\ adapter = NoAdapter
    /\ sel = NoValue
    /\ repeated = FALSE
    /\ sent = NoValue
    /\ calls = << >>
    /\ raised = NoValue
    /\ ret = NoValue
    /\ pc = "idle"
    /\ ld = NoLoad

Next ==
    \/ \E getmask \in BOOLEAN, o \in OpenOutcomes : Construct(getmask, o)
    \/ ReadMeta
    \/ \E s \in FewSelections(Len(imgShape)), o \in OpenOutcomes, f \in FetchOutcomes :
          GetItem(s, o, f)
    \/ \E skipdata \in BOOLEAN, skipvalid \in BOOLEAN, o \in OpenOutcomes :
          LoadOpen(skipdata, skipvalid, o)
    \/ \E o \in OpenOutcomes : LoadData(o)
    \/ \E o \in OpenOutcomes : LoadValid(o)
    \/ \E naxis \in AxisCounts, b \in {"ok", "fail"} : LoadBridge(naxis, b)
    \/ \E rec \in BeamRecords : LoadBeam(rec)
    \/ LoadClose
    \/ \E comps \in ComponentSets : LoadAssemble(comps)

Spec == Init /\ [][Next]_vars

(***************************************************************************)
(* Properties of the sessions and of the load (Spec).                      *)
(***************************************************************************)
InitCalls(t) == << Call(t, "open"), Call(t, "shape"), Call(t, "pixeltype"), Call(t, "close") >>

AccessCalls(t) == << Call(t, "open"), Call(t, "getchunk"), Call(t, "close") >>

\* C5: over any sequence of operations on an adapter, a successful
\* construction makes exactly open, shape, pixeltype, close and no fetch; a
\* successful element access, repeated or not, makes exactly open, getchunk,
\* close; reading shape/ndim/dtype makes no call; and no session of the
\* adapter is open between operations.
C5_SessionPerCall ==
    /\ ret.kind = "adapter" => calls = InitCalls("self.ia")
    /\ ret.kind = "array" => calls = AccessCalls("self.ia")
    /\ (ret.kind = "array" /\ repeated) => Call("self.ia", "getchunk") \in {calls[k] : k \in 1..Len(calls)}
    /\ ret.kind = "meta" => calls = << >>
    /\ pc = "idle" => "self.ia" \notin sessions

\* the latest operation's open failed with the path-does-not-exist signal
PathSignal ==
    /\ raised.kind = "error"
    /\ raised.exc.type = "AssertionError"
    /\ raised.exc.msg = "must be of cReqPath type"

\* C6: wherever a session is opened (construction, element access, load), an
\* open failure carrying the path-does-not-exist signal reaches the caller as
\* an IOError, every other open failure reaches the caller as the very error
\* the service raised, and in both cases the operation returns no result.
C6_OpenFailureTranslated ==
    raised.kind = "error"
        => /\ pc = "idle"
           /\ ret.kind = "error"
           /\ PathSignal => ret.exc.type = "IOError"
           /\ ~PathSignal => ret.exc = raised.exc

\* an element access whose open failed with another assertion failure
C6_Witness ==
    /\ sel # NoValue
    /\ raised.kind = "error"
    /\ raised.exc = [type |-> "AssertionError", msg |-> "other"]
    /\ ret = Error([type |-> "AssertionError", msg |-> "other"])
    /\ calls = << Call("self.ia", "open") >>

\* a load has ended after its coordinate system reported an axis count
LoadEndedWithAxes == pc = "idle" /\ ld.naxis # 0

\* a load has ended after closing its session: it reached the assembly
LoadAssembled ==
    /\ LoadEndedWithAxes
    /\ calls[Len(calls)] = Call("ia", "close")

\* C7 as stated: a load ends in one of three outcomes decided only by the axis
\* count: 3 axes a single cube, 4 axes a container with one cube per
\* component, any other count a descriptive error and no object.
C7_OutcomeByAxesOnly ==
    LoadEndedWithAxes
        => IF ld.naxis = 3 THEN ret.kind = "cube"
           ELSE IF ld.naxis = 4 THEN ret.kind = "stokes" /\ DOMAIN ret.cubes = ld.comps
           ELSE ret.kind = "error" /\ ret.exc.type = "ValueError"

\* C7 amended: a load that reaches the assembly (its session opened and
\* closed, the adapters built, the bridge and the beam record accepted) ends,
\* when data and validity mask were both read, in one of three outcomes
\* decided only by the axis count: 3 axes a single cube, 4 axes a container
\* with one cube per component, any other count a ValueError and no object;
\* when a read was skipped, 3 and 4 axes fail on the unbound array instead.
C7_OutcomeByAxesAtAssembly ==
    LoadAssembled
        => IF ld.naxis \notin {3, 4}
           THEN ret.kind = "error" /\ ret.exc.type = "ValueError"
           ELSE IF ld.skipdata \/ ld.skipvalid
           THEN ret.kind = "error" /\ ret.exc.type = "UnboundLocalError"
           ELSE IF ld.naxis = 3 THEN ret.kind = "cube"
           ELSE ret.kind = "stokes" /\ DOMAIN ret.cubes = ld.comps

\* a 4-axis load that returned a container of the components I and Q
C7_Witness ==
    /\ LoadAssembled
    /\ ld.naxis = 4
    /\ ret.kind = "stokes"
    /\ DOMAIN ret.cubes = {"I", "Q"}

\* the cubes a finished load handed back
CubesOf(r) ==
    IF r.kind = "cube" THEN {r.cube}
    ELSE IF r.kind = "stokes" THEN {r.cubes[c] : c \in DOMAIN r.cubes}
    ELSE {}

\* a quantity is the stored {value, unit} pair, unit for unit
AsStored(q, raw) == q.value = raw.value /\ q.unit = raw.unit

\* a quantity is the same angle as a stored {value, unit} pair
SameAngle(q, raw) == q.value * UnitScale(q.unit) = raw.value * UnitScale(raw.unit)

\* C8: the beam record decides the beam of every cube the load builds: a
\* scalar triple gives a plain cube with one beam holding the three
\* unit-tagged values; else a table of N channels gives a varying-resolution
\* cube whose beam sequence has length N and whose i-th element is the entry
\* of channel i at polarization 0; else the load warns and the cube has no
\* beam attribute.
C8_BeamFollowsRecord ==
    (pc = "idle" /\ CubesOf(ret) # {})
        => \A cube \in CubesOf(ret) :
              IF "major" \in ld.rec.keys
              THEN /\ cube.class = "SpectralCube"
                   /\ cube.attr = "beam"
                   /\ AsStored(cube.beam.major, ld.rec.scalar.major)
                   /\ AsStored(cube.beam.minor, ld.rec.scalar.minor)
                   /\ AsStored(cube.beam.pa, ld.rec.scalar.positionangle)
                   /\ ~ret.warned
              ELSE IF "beams" \in ld.rec.keys
              THEN /\ cube.class = "VaryingResolutionSpectralCube"
                   /\ cube.attr = "beams"
                   /\ Len(cube.beam.major) = ld.rec.nChannels
                   /\ Len(cube.beam.minor) = ld.rec.nChannels
                   /\ Len(cube.beam.pa) = ld.rec.nChannels
                   /\ \A i \in 0..(ld.rec.nChannels - 1) :
                         /\ SameAngle(cube.beam.major[i + 1], ld.rec.beams[i][0].major)
                         /\ SameAngle(cube.beam.minor[i + 1], ld.rec.beams[i][0].minor)
                         /\ SameAngle(cube.beam.pa[i + 1], ld.rec.beams[i][0].positionangle)
                   /\ ~ret.warned
              ELSE /\ cube.class = "SpectralCube"
                   /\ cube.attr = "none"
                   /\ ret.warned

\* a varying-resolution cube built from a table of two channels
C8_Witness ==
    /\ pc = "idle"
    /\ ret.kind = "cube"
    /\ ret.cube.attr = "beams"
    /\ ld.rec.keys = {"beams"}
    /\ Len(ret.cube.beam.major) = 2
    /\ ret.cube.beam.major[1] # ret.cube.beam.major[2]

\* the beam record of the latest load is in table form
TableForm == ld.rec # NoValue /\ "major" \notin ld.rec.keys /\ "beams" \in ld.rec.keys

\* C9: for a record in table form the load fails with NotImplementedError when
\* more than one polarization is reported and, that check passed, with
\* AssertionError when the reported channel count differs from the number of
\* table entries; no cube is returned; a record with a scalar triple is never
\* rejected by these checks.
C9_TableChecks ==
    /\ (TableForm /\ ld.rec.nStokes > 1)
          => pc = "idle" /\ ret = Error([type |-> "NotImplementedError", msg |-> ""])
    /\ (TableForm /\ ld.rec.nStokes <= 1 /\ NBeams(ld.rec) # ld.rec.nChannels)
          => pc = "idle" /\ ret.kind = "error" /\ ret.exc.type = "AssertionError"
    /\ (ld.rec # NoValue /\ "major" \in ld.rec.keys /\ ret.kind = "error")
          => ret.exc.type \notin {"NotImplementedError", "AssertionError"}

\* a one-polarization table whose reported channel count is off
C9_Witness ==
    /\ TableForm
    /\ ld.rec.nStokes = 1
    /\ NBeams(ld.rec) = 2
    /\ ld.rec.nChannels = 1
    /\ ret.kind = "error"
    /\ ret.exc.type = "AssertionError"
    /\ pc = "idle"

\* C10: every session opened by __getitem__ or by load_casa_image is closed
\* before the operation returns control to its caller, on failing paths as
\* well as on successful ones.
C10_NoSessionLeftOpen ==
    pc = "idle" => sessions = {}

(***************************************************************************)
(* Sessions in the course of a load (Spec).                                *)
(***************************************************************************)
\* the k-th call of the log is an open that gave a session: an open that
\* fails raises, so it is the last call of its operation
OpenedAt(k) ==
    /\ calls[k].call = "open"
    /\ ~(k = Len(calls) /\ raised.kind = "error")

\* the tools that hold a session right after the n-th call of the log
OpenAfter(n) ==
    {t \in {calls[k].tool : k \in 1..n} :
        \E k \in 1..n :
            /\ calls[k].tool = t
            /\ OpenedAt(k)
            /\ \A j \in (k + 1)..n : ~(calls[j].tool = t /\ calls[j].call = "close")}

\* the log is that of a load_casa_image run, under way or ended
LoadRun == Len(calls) > 0 /\ calls[1] = Call("ia", "open")

\* C11: at every point of a load_casa_image run at most one session on the
\* image path is open: the load's own session and those of the data adapter
\* and of the validity-mask adapter it builds never overlap in time.
C11_SessionsNeverOverlap ==
    LoadRun => \A n \in 1..Len(calls) : Cardinality(OpenAfter(n)) <= 1

====
